---------------------------- MODULE Spec2Model ----------------------------
(* tlsdb: an interactive TLS record debugger (src/main.go) and its        *)
(* self-reconnecting outbound routes (src/route.go).                       *)
(*                                                                         *)
(* Goroutines are modelled as processes with a program counter.  A send    *)
(* and a receive on an unbuffered channel are one joint step of the two    *)
(* goroutines; a send on the buffered closechan is a step of the sender.   *)
(* A Go panic (nil pointer dereference) ends the whole process.            *)
EXTENDS Integers, Sequences, FiniteSets, TLC

(***************************************************************************)
(* Bounds of the model.                                                    *)
(***************************************************************************)
\* RouteEntry objects created while the whole program runs
MaxRoutes == 2
\* dials, failed or not, over all routes while the whole program runs
MaxDials == 2
\* successful dials of a route studied on its own
MaxRouteDials == 2
\* record and signal events taken by the control loop
MaxEvents == 2
\* operator lines (or commands) read in pauses
MaxCmds == 2
\* Close calls made on one route by its client
MaxCloses == 2
\* Write calls completed by the client of a route
MaxWrites == 1
\* payload bytes of a record given to the codec
MaxPayload == 2
\* values the backend reader has put in inputcg and nobody has taken yet
MaxQueued == 1

(***************************************************************************)
(* Program constants.                                                      *)
(***************************************************************************)
\* route.go:44  max_retry := 5
max_retry == 5
\* route.go:40  closechan: make(chan bool, 1024)
CloseChanCap == 1024
\* main.go:56, 60  ChangeCipher = 0x14, Heartbear = 0x18
ChangeCipher == 20
Heartbear == 24
\* main.go:58-59  Handshake = 0x16, Application = 0x17
Handshake == 22
Application == 23
\* main.go:174  inc := make(chan []byte, 1024)
InputCap == 1024
\* main.go:127  buf := make([]byte, 5)
HeaderLen == 5
\* main.go:146-147  one read of the payload asks for at most 512 bytes
ReadCap == 512

Threads == {"engine", "reader"}
RouteIds == 1..MaxRoutes
\* a nil *RouteEntry
NilRoute == 0

\* EndPoint values (route.go:8-11); NilEP stands for a nil *EndPoint
NilEP == [ip |-> "", port |-> 0]
EndPoints == {[ip |-> "127.0.0.1", port |-> 1589], [ip |-> "127.0.0.1", port |-> 1590]}

\* no record (a nil *tlsRecord); a record is modelled by its content type
NoRecord == 0
RecTypes == {Handshake, Application}

\* an operator line as its tokens: the first token as its characters, then
\* the other tokens (main.go:112-117)
Line(tk0, args) == [tk0 |-> tk0, args |-> args]
\* a *command (main.go:63-66); NilCmd is the nil pointer
Command(c, args) == [cmd |-> c, args |-> args]
NilCmd == Command("nil", <<>>)

VARIABLES
    \* ---- one entry per goroutine that calls into routes
    tpc,            \* position of the goroutine
    tre,            \* the *RouteEntry the goroutine is calling into
    tret,           \* where the goroutine continues when the call returns
    tres,           \* error result of the last Read/Write that returned
    failGen,        \* connection on which the goroutine's last conn.Read/Write was called
    \* ---- one entry per RouteEntry object (route.go:13-19 and run's locals)
    rpc,            \* position of the run goroutine
    conn,           \* re.conn: "nil", "open" or "closed"
    gen,            \* number of successful dials (identity of re.conn)
    retries,        \* run's local retries
    closechan,      \* number of values buffered in re.closechan
    toclose,        \* run's local toclose, once the select has read closechan
    ncloses,        \* Close calls started on the route
    \* ---- globals and main's locals (main.go:33-35, 341-342, 364)
    routeTable,
    defaultroute,
    breakpoints,
    currentRecord,
    cmd,            \* main.go:364 cmd: the command type read last in this pause
    lastErr,        \* what the last command reported
    cmdep,          \* the endpoint of the addRoute/removeRoute in progress
    nroutes,        \* RouteEntry objects created so far
    ncmds,          \* lines read so far
    nevents,        \* events taken so far
    written,        \* records written to routes by the control loop, in order
    panicked,       \* the process died of a panic
    inputcg,        \* number of values buffered in inputcg (main.go:36, 174)
    \* ---- the record codec studied on its own (main.go:76-85, 126-166)
    cpc,            \* "idle", "decode", "encode", "decoded" or "encoded"
    cstream,        \* the chunks the connection delivers, in order
    crecord,        \* the *tlsRecord decoded or to encode
    cerr,           \* the error readTLSRecord returned
    cbytes          \* the bytes toBytes returned

tvars == <<tpc, tre, tret, tres, failGen>>
rvars == <<rpc, conn, gen, retries, closechan, toclose, ncloses>>
evars == <<routeTable, defaultroute, breakpoints, currentRecord, cmd,
           lastErr, cmdep, nroutes, ncmds, nevents>>
cvars == <<cpc, cstream, crecord, cerr, cbytes>>
vars == <<tvars, rvars, evars, written, panicked, cvars, inputcg>>

(***************************************************************************)
(* The record codec (main.go:68-85, 126-166)                               *)
(***************************************************************************)

\* a tlsRecord value (main.go:68-74); NilRecord stands for a nil *tlsRecord
tlsRecord(ty, ver, len, data) == [Type |-> ty, Version |-> ver, Length |-> len, Data |-> data]
NilRecord == tlsRecord(0, <<>>, 0, <<>>)

\* binary.BigEndian.PutUint16 and binary.BigEndian.Uint16
PutUint16(v) == <<(v \div 256) % 256, v % 256>>
Uint16(b) == b[1] * 256 + b[2]

\* main.go:76-85: type, version, the stored Length, then Data
toBytes(r) == <<r.Type>> \o r.Version \o PutUint16(r.Length) \o r.Data

\* one conn.Read(p) with len(p) = n on a connection that delivers the chunks
\* of stream in order: it returns the bytes of the first chunk, at most n of
\* them, and an error when the connection has nothing more to deliver
connRead(stream, n) ==
    IF stream = <<>>
       THEN [err |-> "EOF", data |-> <<>>, rest |-> <<>>]
       ELSE LET head == Head(stream)
                k == IF n < Len(head) THEN n ELSE Len(head)
            IN  [err |-> "",
                 data |-> SubSeq(head, 1, k),
                 rest |-> IF k = Len(head)
                             THEN Tail(stream)
                             ELSE <<SubSeq(head, k + 1, Len(head))>> \o Tail(stream)]

\* main.go:143-158: the loop that fills buf[0:recordLength]; buf holds the l
\* bytes read so far
RECURSIVE readPayload(_, _, _, _)
readPayload(stream, buf, l, recordLength) ==
    IF ~(l < recordLength)
       THEN [err |-> "", data |-> buf, rest |-> stream]
       ELSE LET r == IF l + ReadCap < recordLength THEN l + ReadCap ELSE recordLength
                rd == connRead(stream, r - l)
                nread == Len(rd.data)
            IN  IF rd.err # ""
                   THEN [err |-> rd.err, data |-> <<>>, rest |-> rd.rest]
                   ELSE IF nread # r - l
                           THEN readPayload(rd.rest, buf \o rd.data, l + nread, recordLength)
                           ELSE readPayload(rd.rest, buf \o rd.data, r, recordLength)

\* main.go:126-166: one conn.Read into the zeroed 5-byte buf, whose count is
\* not looked at, then the type check, then the payload loop
readTLSRecord(stream) ==
    LET rd == connRead(stream, HeaderLen)
        buf == rd.data \o [i \in 1..(HeaderLen - Len(rd.data)) |-> 0]
        recordType == buf[1]
        version == SubSeq(buf, 2, 3)
        recordLength == Uint16(SubSeq(buf, 4, 5))
        body == readPayload(rd.rest, <<>>, 0, recordLength)
    IN  IF rd.err # ""
           THEN [record |-> NilRecord, err |-> rd.err]
           ELSE IF recordType < ChangeCipher \/ recordType > Heartbear
                   THEN [record |-> NilRecord, err |-> "Unknwon record type"]
                   ELSE IF body.err # ""
                           THEN [record |-> NilRecord, err |-> body.err]
                           ELSE [record |-> tlsRecord(recordType, version, recordLength, body.data),
                                 err |-> ""]

\* the codec is not being studied
codecIdle ==
    /\ cpc = "idle"
    /\ cstream = <<>>
    /\ crecord = NilRecord
    /\ cerr = ""
    /\ cbytes = <<>>

(***************************************************************************)
(* RouteEntry.run (route.go:43-66)                                         *)
(***************************************************************************)

\* NewRoutingEntry followed by `go re.run()`: object r starts at the loop head
NewRoutingEntry(r) ==
    /\ rpc' = [rpc EXCEPT ![r] = "dial"]
    /\ conn' = [conn EXCEPT ![r] = "nil"]
    /\ gen' = [gen EXCEPT ![r] = 0]
    /\ retries' = [retries EXCEPT ![r] = 0]
    /\ closechan' = [closechan EXCEPT ![r] = 0]
    /\ toclose' = [toclose EXCEPT ![r] = FALSE]
    /\ ncloses' = [ncloses EXCEPT ![r] = 0]

\* a run that dials again after every failure
runDialFailNoLimit(r) ==
    /\ ~panicked
    /\ UNCHANGED <<cvars, inputcg>>
    /\ rpc[r] = "dial"
    /\ conn' = [conn EXCEPT ![r] = "nil"]
    /\ retries' = [retries EXCEPT ![r] = @ + 1]
    /\ rpc' = [rpc EXCEPT ![r] = "dial"]
    /\ UNCHANGED <<gen, closechan, toclose, ncloses, tvars, evars, written, panicked>>

\* route.go:46-51, a dial that fails: re.conn becomes nil, retries grows, and
\* the loop condition retries <= max_retry decides whether run goes on
runDialFail(r) ==
    /\ ~panicked
    /\ UNCHANGED <<cvars, inputcg>>
    /\ rpc[r] = "dial"
    /\ conn' = [conn EXCEPT ![r] = "nil"]
    /\ retries' = [retries EXCEPT ![r] = @ + 1]
    /\ rpc' = [rpc EXCEPT ![r] = IF retries[r] + 1 <= max_retry THEN "dial" ELSE "done"]
    /\ UNCHANGED <<gen, closechan, toclose, ncloses, tvars, evars, written, panicked>>

\* a run that starts counting failures afresh after a successful dial
runDialOkResets(r) ==
    /\ ~panicked
    /\ UNCHANGED <<cvars, inputcg>>
    /\ rpc[r] = "dial"
    /\ conn' = [conn EXCEPT ![r] = "open"]
    /\ gen' = [gen EXCEPT ![r] = @ + 1]
    /\ retries' = [retries EXCEPT ![r] = 0]
    /\ rpc' = [rpc EXCEPT ![r] = "send_ready"]
    /\ UNCHANGED <<closechan, toclose, ncloses, tvars, evars, written, panicked>>

\* route.go:48, a dial that succeeds: re.conn is a new open connection
runDialOk(r) ==
    /\ ~panicked
    /\ UNCHANGED <<cvars, inputcg>>
    /\ rpc[r] = "dial"
    /\ conn' = [conn EXCEPT ![r] = "open"]
    /\ gen' = [gen EXCEPT ![r] = @ + 1]
    /\ rpc' = [rpc EXCEPT ![r] = "send_ready"]
    /\ UNCHANGED <<retries, closechan, toclose, ncloses, tvars, evars, written, panicked>>

\* route.go:52 `re.readychan <- true` meeting `<-re.readychan` of Run
\* (route.go:70) or of restart (route.go:75)
readyHandoff(r, t) ==
    /\ ~panicked
    /\ UNCHANGED <<cvars, inputcg>>
    /\ rpc[r] = "send_ready"
    /\ tre[t] = r
    /\ tpc[t] \in {"run_wait", "ready_recv"}
    /\ rpc' = [rpc EXCEPT ![r] = "recv_restart"]
    /\ tpc' = [tpc EXCEPT ![t] = IF tpc[t] = "run_wait" THEN tret[t] ELSE "io"]
    /\ UNCHANGED <<tre, tret, tres, failGen, conn, gen, retries, closechan, toclose,
                   ncloses, evars, written, panicked>>

\* route.go:53 `<-re.restartchan` meeting `re.restartchan <- true` of restart
\* (route.go:74) or of Close (route.go:106)
restartHandoff(r, t) ==
    /\ ~panicked
    /\ UNCHANGED <<cvars, inputcg>>
    /\ rpc[r] = "recv_restart"
    /\ tre[t] = r
    /\ tpc[t] \in {"restart_send", "close_rc"}
    /\ rpc' = [rpc EXCEPT ![r] = "select"]
    /\ tpc' = [tpc EXCEPT ![t] = IF tpc[t] = "close_rc" THEN tret[t] ELSE "ready_recv"]
    /\ UNCHANGED <<tre, tret, tres, failGen, conn, gen, retries, closechan, toclose,
                   ncloses, evars, written, panicked>>

\* a plausible slip: run dials again although it has read a close request
runSelectNoBreak(r) ==
    /\ ~panicked
    /\ UNCHANGED <<cvars, inputcg>>
    /\ rpc[r] = "select"
    /\ toclose' = [toclose EXCEPT ![r] = closechan[r] > 0]
    /\ closechan' = [closechan EXCEPT ![r] = IF @ > 0 THEN @ - 1 ELSE @]
    /\ conn' = [conn EXCEPT ![r] = "closed"]
    /\ rpc' = [rpc EXCEPT ![r] = "dial"]
    /\ UNCHANGED <<gen, retries, ncloses, tvars, evars, written, panicked>>

\* route.go:54-65: the non-blocking select on closechan, re.conn.Close(), and
\* the break out of the loop when a close request was read
runSelect(r) ==
    /\ ~panicked
    /\ UNCHANGED <<cvars, inputcg>>
    /\ rpc[r] = "select"
    /\ toclose' = [toclose EXCEPT ![r] = closechan[r] > 0]
    /\ closechan' = [closechan EXCEPT ![r] = IF @ > 0 THEN @ - 1 ELSE @]
    /\ conn' = [conn EXCEPT ![r] = "closed"]
    /\ rpc' = [rpc EXCEPT ![r] = IF closechan[r] > 0 THEN "done" ELSE "dial"]
    /\ UNCHANGED <<gen, retries, ncloses, tvars, evars, written, panicked>>

(***************************************************************************)
(* RouteEntry.Read / RouteEntry.Write / restart / Close (route.go:73-107)  *)
(***************************************************************************)

\* route.go:82-85 / 95-98: on an error the call enters restart() and loops
onIOError(t) ==
    /\ tpc' = [tpc EXCEPT ![t] = "restart_send"]
    /\ tres' = tres
    /\ failGen' = failGen

\* the call returns to the control loop's select: main.go:341-342 start over
resumes(t) == t = "engine" /\ tret[t] = "select"

\* route.go:82 / 95, the call of re.conn.Read or re.conn.Write: re.conn is
\* evaluated now, and the goroutine then waits inside the call on that
\* connection, whatever run does to re.conn meanwhile
ioCall(t) ==
    /\ ~panicked
    /\ UNCHANGED <<cvars, inputcg>>
    /\ tpc[t] = "io"
    /\ tre[t] # NilRoute
    /\ conn[tre[t]] \in {"open", "closed"}
    /\ tpc' = [tpc EXCEPT ![t] = "in_io"]
    /\ failGen' = [failGen EXCEPT ![t] = gen[tre[t]]]
    /\ UNCHANGED <<tre, tret, tres, rvars, evars, written, panicked>>

\* the connection the goroutine's call runs on is still re.conn and is open
callConnOpen(t) == gen[tre[t]] = failGen[t] /\ conn[tre[t]] = "open"

\* route.go:82 / 95, the call succeeds, which it can only on an open
\* connection, and Read/Write returns (nread, nil); the control loop's writes
\* are logged
ioOk(t) ==
    /\ ~panicked
    /\ UNCHANGED <<cvars, inputcg>>
    /\ tpc[t] = "in_io"
    /\ callConnOpen(t)
    /\ tpc' = [tpc EXCEPT ![t] = tret[t]]
    /\ tres' = [tres EXCEPT ![t] = "ok"]
    /\ written' = IF t = "engine" THEN Append(written, <<tre[t], currentRecord>>)
                                  ELSE written
    /\ currentRecord' = IF resumes(t) THEN NoRecord ELSE currentRecord
    /\ UNCHANGED <<tre, tret, failGen, rvars, routeTable, defaultroute, breakpoints,
                   cmd, lastErr, cmdep, nroutes, ncmds, nevents, panicked>>

\* route.go:82 / 95, the call fails: always once run has closed its
\* connection, possibly while the connection is open
ioErr(t) ==
    /\ ~panicked
    /\ UNCHANGED <<cvars, inputcg>>
    /\ tpc[t] = "in_io"
    /\ onIOError(t)
    /\ IF tpc'[t] = tret[t] /\ resumes(t)
          THEN currentRecord' = NoRecord
          ELSE currentRecord' = currentRecord
    /\ UNCHANGED <<tre, tret, rvars, routeTable, defaultroute, breakpoints,
                   cmd, lastErr, cmdep, nroutes, ncmds, nevents, written, panicked>>

\* route.go:82 / 95 on a nil *RouteEntry or a nil re.conn: nil dereference
ioPanic(t) ==
    /\ ~panicked
    /\ UNCHANGED <<cvars, inputcg>>
    /\ tpc[t] = "io"
    /\ IF tre[t] = NilRoute THEN TRUE ELSE conn[tre[t]] = "nil"
    /\ panicked' = TRUE
    /\ UNCHANGED <<tvars, rvars, evars, written>>

\* route.go:105 `re.closechan <- true` (blocks only when the buffer is full)
closeSend(t) ==
    /\ ~panicked
    /\ UNCHANGED <<cvars, inputcg>>
    /\ tpc[t] = "close_cc"
    /\ closechan[tre[t]] < CloseChanCap
    /\ closechan' = [closechan EXCEPT ![tre[t]] = @ + 1]
    /\ tpc' = [tpc EXCEPT ![t] = "close_rc"]
    /\ UNCHANGED <<tre, tret, tres, failGen, rpc, conn, gen, retries, toclose, ncloses,
                   evars, written, panicked>>

(***************************************************************************)
(* A route and its callers on their own: the creator opens the route with  *)
(* Run and then calls Write and Close; another goroutine calls Read.       *)
(***************************************************************************)

RouteInit ==
    /\ tpc = [t \in Threads |-> IF t = "engine" THEN "run_wait" ELSE "idle"]
    /\ tre = [t \in Threads |-> IF t = "engine" THEN 1 ELSE NilRoute]
    /\ tret = [t \in Threads |-> "idle"]
    /\ tres = [t \in Threads |-> "none"]
    /\ failGen = [t \in Threads |-> 0]
    /\ rpc = [r \in RouteIds |-> IF r = 1 THEN "dial" ELSE "none"]
    /\ conn = [r \in RouteIds |-> "nil"]
    /\ gen = [r \in RouteIds |-> 0]
    /\ retries = [r \in RouteIds |-> 0]
    /\ closechan = [r \in RouteIds |-> 0]
    /\ toclose = [r \in RouteIds |-> FALSE]
    /\ ncloses = [r \in RouteIds |-> 0]
    /\ routeTable = [e \in EndPoints |-> NilRoute]
    /\ defaultroute = NilEP
    /\ breakpoints = {Application}
    /\ currentRecord = Handshake
    /\ cmd = "nil"
    /\ lastErr = ""
    /\ cmdep = NilEP
    /\ nroutes = 1
    /\ ncmds = 0
    /\ nevents = 0
    /\ written = <<>>
    /\ panicked = FALSE
    /\ inputcg = 0
    /\ codecIdle

\* the route has been opened: Run (route.go:68-71) has returned
opened == tpc["engine"] # "run_wait"

\* a call of re.Read (reader) or re.Write (creator) on route 1
clientIO(t) ==
    /\ ~panicked
    /\ UNCHANGED <<cvars, inputcg>>
    /\ opened
    /\ tpc[t] = "idle"
    /\ t = "engine" => Len(written) < MaxWrites
    /\ tpc' = [tpc EXCEPT ![t] = "io"]
    /\ tre' = [tre EXCEPT ![t] = 1]
    /\ tres' = [tres EXCEPT ![t] = "none"]
    /\ failGen' = [failGen EXCEPT ![t] = 0]
    /\ UNCHANGED <<tret, rvars, evars, written, panicked>>

\* a call of re.Close by the creator
clientClose ==
    /\ ~panicked
    /\ UNCHANGED <<cvars, inputcg>>
    /\ tpc["engine"] = "idle"
    /\ ncloses[1] < MaxCloses
    /\ ncloses' = [ncloses EXCEPT ![1] = @ + 1]
    /\ tpc' = [tpc EXCEPT !["engine"] = "close_cc"]
    /\ UNCHANGED <<tre, tret, tres, failGen, rpc, conn, gen, retries, closechan, toclose,
                   evars, written, panicked>>

RouteNext ==
    \/ runDialFail(1)
    \/ gen[1] < MaxRouteDials /\ runDialOk(1)
    \/ \E t \in Threads : readyHandoff(1, t)
    \/ \E t \in Threads : restartHandoff(1, t)
    \/ runSelect(1)
    \/ \E t \in Threads : ioCall(t)
    \/ \E t \in Threads : ioOk(t)
    \/ \E t \in Threads : ioErr(t)
    \/ \E t \in Threads : ioPanic(t)
    \/ closeSend("engine")
    \/ \E t \in Threads : clientIO(t)
    \/ clientClose

RouteSpec == RouteInit /\ [][RouteNext]_vars

\* Go's scheduler: a goroutine that can run does run, and a channel operation
\* whose partner is waiting completes
RouteFairSpec ==
    /\ RouteSpec
    /\ WF_vars(runDialFail(1) \/ (gen[1] < MaxRouteDials /\ runDialOk(1)))
    /\ WF_vars(runSelect(1))
    /\ WF_vars(\E t \in Threads : readyHandoff(1, t))
    /\ WF_vars(\E t \in Threads : restartHandoff(1, t))
    /\ WF_vars(closeSend("engine"))

(***************************************************************************)
(* Claims about a route and its callers                                    *)
(***************************************************************************)

\* a goroutine is inside Close on route r, at the send on restartchan
inCloseHandoff(t, r) == tre[t] = r /\ tpc[t] = "close_rc"
\* a goroutine is inside restart() of a Read or Write on route r
inRestart(t, r) == tre[t] = r /\ tpc[t] \in {"restart_send", "ready_recv"}

\* C1: Close on a route never blocks its caller beyond the signal handoff: a
\* Close call (the first one made on the route) is never left at its send on
\* restartchan with the background task gone, where nothing can receive it.
C1_CloseNeverBlocks ==
    \A t \in Threads : \A r \in RouteIds :
        (inCloseHandoff(t, r) /\ ncloses[r] = 1) => rpc[r] # "done"

\* C2: once the close has been observed and the background task has
\* terminated, no Read or Write stays blocked: no caller is left inside
\* restart(), waiting on a channel of the terminated task.
C2_ClosedRouteReturnsError ==
    \A t \in Threads : \A r \in RouteIds :
        (rpc[r] = "done" /\ toclose[r]) => ~inRestart(t, r)

\* a Read or Write that has failed, has been through restart() and is about
\* to call re.conn.Read/Write again (failGen is 0 until the call's first
\* conn.Read/Write)
retrying(t) == tpc[t] = "io" /\ tre[t] # NilRoute /\ failGen[t] >= 1

\* C3: a Read or Write that hit an I/O error with no close requested, and
\* that restart() has handed the redialed connection, retries on that
\* connection and returns success: its retry never dies of a nil re.conn,
\* it leaves restart() only on an open connection dialed after the failure,
\* and no Read or Write ever returns the error.
C3_RetryIsTransparent ==
    [][\A t \in Threads :
          /\ (tpc[t] = "ready_recv" /\ tpc'[t] = "io")
                => (conn'[tre[t]] = "open" /\ gen'[tre[t]] > failGen[t])
          /\ (retrying(t) /\ ncloses[tre[t]] = 0 /\ conn[tre[t]] = "nil")
                => ~(panicked' /\ ~panicked)
          /\ tres'[t] # "err"]_vars

\* C4 as claimed: whenever the background task terminates while a close
\* request is pending in closechan, it terminates having observed the close.
C4_TaskObservesClose ==
    [][\A r \in RouteIds :
          (rpc[r] # "done" /\ rpc'[r] = "done" /\ closechan[r] > 0) => toclose'[r]]_vars

\* C4 amended: after Close is called on a live route the background task
\* eventually terminates with the socket not open, either having observed
\* the close or having used up its dial retries, and it dials no more once
\* it has observed the close.
C4_TaskTerminates ==
    /\ [][\A r \in RouteIds :
            /\ (rpc[r] # "done" /\ rpc'[r] = "done")
                  => (conn'[r] # "open" /\ (toclose'[r] \/ retries'[r] > max_retry))
            /\ toclose[r] => (gen'[r] = gen[r] /\ retries'[r] = retries[r]
                               /\ rpc'[r] = "done")]_vars
    /\ \A r \in RouteIds :
          ((\E t \in Threads : tre[t] = r /\ tpc[t] \in {"close_cc", "close_rc"})
             /\ rpc[r] # "done")
          ~> (rpc[r] = "done")

\* C4 witness: the task observed the close and terminated while another
\* goroutine's restart request was in flight
C4_Witness ==
    /\ rpc[1] = "done" /\ toclose[1] /\ conn[1] = "closed"
    /\ inRestart("reader", 1)

\* C5: Close is idempotent for its caller: a second or later Close call on
\* the same route returns like the first, so it is never left at its send on
\* restartchan with the background task gone.
C5_RepeatedCloseReturns ==
    \A t \in Threads : \A r \in RouteIds :
        (inCloseHandoff(t, r) /\ ncloses[r] >= 2) => rpc[r] # "done"

(***************************************************************************)
(* The command line (main.go:87-124) and endpoint parsing (main.go:223-238)*)
(***************************************************************************)

\* main.go:87-108: the command of a character; there is no case for 'r'
getCommandType(c) ==
    CASE c = "b" -> "breakType"
      [] c = "a" -> "addRoute"
      [] c = "l" -> "listRoute"
      [] c = "s" -> "setDefaultRoute"
      [] c = "f" -> "forwardRecord"
      [] c = "d" -> "dropRecord"
      [] c = "q" -> "quitProgram"
      [] c = "c" -> "continueType"
      [] OTHER -> "unknown"

\* main.go:118-123: nil unless the first token is one known character
getNextCommand(line) ==
    IF Len(line.tk0) # 1 \/ getCommandType(line.tk0[1]) = "unknown"
        THEN NilCmd
        ELSE Command(getCommandType(line.tk0[1]), line.args)

\* strconv.Atoi on the tokens the model uses; other tokens are not numbers
AtoiTab == ("22" :> 22) @@ ("23" :> 23) @@ ("279" :> 279) @@
           ("1589" :> 1589) @@ ("1590" :> 1590)
\* net.LookupIP: the host tokens that resolve
Hosts == {"127.0.0.1"}

\* main.go:223-238 parseEP; uint16(port) keeps the low 16 bits
parseEP(sip, sport) ==
    IF sip \notin Hosts THEN [err |-> "lookup", ep |-> NilEP]
    ELSE IF sport \notin DOMAIN AtoiTab THEN [err |-> "atoi", ep |-> NilEP]
    ELSE [err |-> "", ep |-> [ip |-> sip, port |-> AtoiTab[sport] % 65536]]

\* the lines an operator types in the model
EpArgs == {<<"127.0.0.1", "1589">>, <<"127.0.0.1", "1590">>, <<"127.0.0.1">>,
           <<"nohost", "1589">>, <<"127.0.0.1", "http">>}
BreakArgs == {<<"23">>, <<"22">>, <<"279">>, <<>>, <<"x">>}
Lines ==
    {Line(<<c>>, a) : c \in {"a", "r", "s"}, a \in EpArgs}
      \cup {Line(<<"b">>, a) : a \in BreakArgs}
      \cup {Line(<<c>>, <<>>) : c \in {"l", "f", "d", "q", "c", "x"}}
      \cup {Line(<<"q", "q">>, <<>>), Line(<<>>, <<>>)}

\* the command values handleCMD can be given
CommandTypes == {"breakType", "addRoute", "removeRoute", "listRoute",
                 "setDefaultRoute", "forwardRecord", "dropRecord", "quitProgram",
                 "continueType", "unknown"}
Commands ==
    {Command(c, a) : c \in {"addRoute", "removeRoute", "setDefaultRoute"}, a \in EpArgs}
      \cup {Command("breakType", a) : a \in BreakArgs}
      \cup {Command(c, <<>>) : c \in {"listRoute", "forwardRecord", "dropRecord",
                                      "quitProgram", "continueType", "unknown"}}

(***************************************************************************)
(* handleCMD (main.go:222-323).  Each case gives the next value of every   *)
(* variable but ncmds and cmd,         which belong to the pause loop.   *)
(***************************************************************************)

\* len(routeTable)
tableLen == Cardinality({e \in EndPoints : routeTable[e] # NilRoute})

\* return false, err / return false, nil: the pause goes on
report(err) ==
    /\ lastErr' = err
    /\ UNCHANGED <<tvars, rvars, routeTable, defaultroute, breakpoints, currentRecord,
                   cmdep, nroutes, nevents, written, panicked>>

\* return true, nil: the pause ends and the loop starts over (main.go:341-342)
resume ==
    /\ tpc' = [tpc EXCEPT !["engine"] = "select"]
    /\ currentRecord' = NoRecord
    /\ lastErr' = ""
    /\ UNCHANGED <<tre, tret, tres, failGen, rvars, routeTable, defaultroute,
                   breakpoints, cmdep, nroutes, nevents, written, panicked>>

\* a nil pointer dereference in the control loop
panic ==
    /\ panicked' = TRUE
    /\ UNCHANGED <<tvars, rvars, routeTable, defaultroute, breakpoints, currentRecord,
                   lastErr, cmdep, nroutes, nevents, written>>

\* the control loop enters re.Write(record.toBytes()) on route re
startWrite(re, record) ==
    /\ tpc' = [tpc EXCEPT !["engine"] = "io"]
    /\ tre' = [tre EXCEPT !["engine"] = re]
    /\ tret' = [tret EXCEPT !["engine"] = "select"]
    /\ tres' = [tres EXCEPT !["engine"] = "none"]
    /\ failGen' = [failGen EXCEPT !["engine"] = 0]
    /\ currentRecord' = record
    /\ lastErr' = ""
    /\ UNCHANGED <<rvars, routeTable, defaultroute, breakpoints, cmdep, nroutes,
                   nevents, written, panicked>>

\* a break command that only ever sets breakpoints
toggleSetOnly(bps, bp) == bps \cup {bp}

\* main.go:250-254: the entry of breakpoints for bp is set when it is absent
\* and deleted when it is present
toggleBreakpoint(bps, bp) == IF bp \in bps THEN bps \ {bp} ELSE bps \cup {bp}

\* main.go:241-255
breakCmd(c) ==
    IF Len(c.args) # 1 \/ c.args[1] \notin DOMAIN AtoiTab
        THEN report("Args wrong.")
        ELSE LET rt == AtoiTab[c.args[1]] % 256 IN
             /\ breakpoints' = toggleBreakpoint(breakpoints, rt)
             /\ lastErr' = ""
             /\ UNCHANGED <<tvars, rvars, routeTable, defaultroute, currentRecord,
                            cmdep, nroutes, nevents, written, panicked>>

\* main.go:256-265: up to re.Run(), which starts run and waits on readychan
addCmd(c) ==
    IF Len(c.args) # 2 THEN report("Args wrong.")
    ELSE LET p == parseEP(c.args[1], c.args[2]) IN
         IF p.err # "" THEN report(p.err)
         ELSE /\ nroutes < MaxRoutes
              /\ nroutes' = nroutes + 1
              /\ NewRoutingEntry(nroutes + 1)
              /\ cmdep' = p.ep
              /\ tpc' = [tpc EXCEPT !["engine"] = "run_wait"]
              /\ tre' = [tre EXCEPT !["engine"] = nroutes + 1]
              /\ tret' = [tret EXCEPT !["engine"] = "add_setdef"]
              /\ lastErr' = ""
              /\ UNCHANGED <<tres, failGen, routeTable, defaultroute, breakpoints,
                             currentRecord, nevents, written, panicked>>

\* main.go:271-283: up to re.Close()
removeCmd(c) ==
    IF Len(c.args) # 2 THEN report("Args wrong.")
    ELSE LET p == parseEP(c.args[1], c.args[2]) IN
         IF p.err # "" THEN report(p.err)
         ELSE IF routeTable[p.ep] = NilRoute THEN report("No such route.")
         ELSE /\ cmdep' = p.ep
              /\ tpc' = [tpc EXCEPT !["engine"] = "close_cc"]
              /\ tre' = [tre EXCEPT !["engine"] = routeTable[p.ep]]
              /\ tret' = [tret EXCEPT !["engine"] = "rm_delete"]
              /\ ncloses' = [ncloses EXCEPT ![routeTable[p.ep]] = @ + 1]
              /\ lastErr' = ""
              /\ UNCHANGED <<tres, failGen, rpc, conn, gen, retries, closechan, toclose,
                             routeTable, defaultroute, breakpoints, currentRecord,
                             nroutes, nevents, written, panicked>>

\* main.go:285-292: `ep == *defaultroute` dereferences defaultroute per entry
listCmd(c) ==
    IF tableLen > 0 /\ defaultroute = NilEP THEN panic ELSE report("")

\* main.go:293-304
setDefaultCmd(c) ==
    IF Len(c.args) # 2 THEN report("Args wrong.")
    ELSE LET p == parseEP(c.args[1], c.args[2]) IN
         IF p.err # "" THEN report(p.err)
         ELSE IF routeTable[p.ep] = NilRoute THEN report("No such route.")
         ELSE /\ defaultroute' = p.ep
              /\ lastErr' = ""
              /\ UNCHANGED <<tvars, rvars, routeTable, breakpoints, currentRecord,
                             cmdep, nroutes, nevents, written, panicked>>

\* main.go:310-316: `*defaultroute` is evaluated before record is tested
forwardCmd(c) ==
    IF defaultroute = NilEP THEN panic
    ELSE IF currentRecord = NoRecord THEN report("No record")
    ELSE startWrite(routeTable[defaultroute], currentRecord)

\* what the design text says of continue: resume, never forward
continueNoForward(c) ==
    resume

\* main.go:305-309: resume when no record is pending, else fall through to
\* the forwardRecord case
continueCmd(c) ==
    IF currentRecord = NoRecord THEN resume ELSE forwardCmd(c)

\* a `d` that forwards the record as `f` does
dropForwards(c) == forwardCmd(c)

\* main.go:317-318
dropCmd(c) ==
    resume

\* main.go:240-323; quitProgram has no case: bk stays false, err is nil
handleCMD(c) ==
    CASE c.cmd = "breakType" -> breakCmd(c)
      [] c.cmd = "addRoute" -> addCmd(c)
      [] c.cmd = "removeRoute" -> removeCmd(c)
      [] c.cmd = "listRoute" -> listCmd(c)
      [] c.cmd = "setDefaultRoute" -> setDefaultCmd(c)
      [] c.cmd = "continueType" -> continueCmd(c)
      [] c.cmd = "forwardRecord" -> forwardCmd(c)
      [] c.cmd = "dropRecord" -> dropCmd(c)
      [] c.cmd = "unknown" -> report("Unknown command")
      [] OTHER -> report("")

\* an add that makes every new route the default
addSetDefaultAlways ==
    /\ ~panicked
    /\ UNCHANGED <<cvars, inputcg>>
    /\ tpc["engine"] = "add_setdef"
    /\ defaultroute' = cmdep
    /\ tpc' = [tpc EXCEPT !["engine"] = "add_insert"]
    /\ UNCHANGED <<tre, tret, tres, failGen, rvars, routeTable, breakpoints,
                   currentRecord, cmd, lastErr, cmdep, nroutes, ncmds,
                   nevents, written, panicked>>

\* main.go:266-268, after Run has returned
addSetDefault ==
    /\ ~panicked
    /\ UNCHANGED <<cvars, inputcg>>
    /\ tpc["engine"] = "add_setdef"
    /\ defaultroute' = IF tableLen = 0 THEN cmdep ELSE defaultroute
    /\ tpc' = [tpc EXCEPT !["engine"] = "add_insert"]
    /\ UNCHANGED <<tre, tret, tres, failGen, rvars, routeTable, breakpoints,
                   currentRecord, cmd, lastErr, cmdep, nroutes, ncmds,
                   nevents, written, panicked>>

\* main.go:269-270; handleCMD returns false, nil
addInsert ==
    /\ ~panicked
    /\ UNCHANGED <<cvars, inputcg>>
    /\ tpc["engine"] = "add_insert"
    /\ routeTable' = [routeTable EXCEPT ![cmdep] = tre["engine"]]
    /\ tpc' = [tpc EXCEPT !["engine"] = "prompt"]
    /\ UNCHANGED <<tre, tret, tres, failGen, rvars, defaultroute, breakpoints,
                   currentRecord, cmd, lastErr, cmdep, nroutes, ncmds,
                   nevents, written, panicked>>

\* main.go:284, after Close has returned; handleCMD returns false, nil
removeDelete ==
    /\ ~panicked
    /\ UNCHANGED <<cvars, inputcg>>
    /\ tpc["engine"] = "rm_delete"
    /\ routeTable' = [routeTable EXCEPT ![cmdep] = NilRoute]
    /\ tpc' = [tpc EXCEPT !["engine"] = "prompt"]
    /\ UNCHANGED <<tre, tret, tres, failGen, rvars, defaultroute, breakpoints,
                   currentRecord, cmd, lastErr, cmdep, nroutes, ncmds,
                   nevents, written, panicked>>

(***************************************************************************)
(* main's control loop (main.go:340-380)                                   *)
(***************************************************************************)

\* a control loop that pauses on every record
recvRecordPauseAll(ty) ==
    /\ ~panicked
    /\ UNCHANGED <<cvars, inputcg>>
    /\ tpc["engine"] = "select"
    /\ nevents < MaxEvents
    /\ nevents' = nevents + 1
    /\ cmd' = "nil"
    /\ tpc' = [tpc EXCEPT !["engine"] = "prompt"]
    /\ currentRecord' = ty
    /\ UNCHANGED <<tre, tret, tres, failGen>>
    /\ UNCHANGED <<rvars, routeTable, defaultroute, breakpoints, lastErr, cmdep,
                   nroutes, ncmds, written, panicked>>

\* main.go:345-357: a record taken from tlsc
recvRecord(ty) ==
    /\ ~panicked
    /\ UNCHANGED <<cvars, inputcg>>
    /\ tpc["engine"] = "select"
    /\ nevents < MaxEvents
    /\ nevents' = nevents + 1
    /\ cmd' = "nil"
    /\ IF ty \notin breakpoints
          THEN IF defaultroute # NilEP /\ routeTable[defaultroute] # NilRoute
                  THEN /\ tpc' = [tpc EXCEPT !["engine"] = "io"]
                       /\ tre' = [tre EXCEPT !["engine"] = routeTable[defaultroute]]
                       /\ tret' = [tret EXCEPT !["engine"] = "select"]
                       /\ tres' = [tres EXCEPT !["engine"] = "none"]
                       /\ failGen' = [failGen EXCEPT !["engine"] = 0]
                       /\ currentRecord' = ty
                  ELSE /\ currentRecord' = NoRecord
                       /\ UNCHANGED tvars
          ELSE /\ tpc' = [tpc EXCEPT !["engine"] = "prompt"]
               /\ currentRecord' = ty
               /\ UNCHANGED <<tre, tret, tres, failGen>>
    /\ UNCHANGED <<rvars, routeTable, defaultroute, breakpoints, lastErr, cmdep,
                   nroutes, ncmds, written, panicked>>

\* main.go:358-361: SIGINT
recvSignal ==
    /\ ~panicked
    /\ UNCHANGED <<cvars, inputcg>>
    /\ tpc["engine"] = "select"
    /\ nevents < MaxEvents
    /\ nevents' = nevents + 1
    /\ cmd' = "nil"
    /\ tpc' = [tpc EXCEPT !["engine"] = "prompt"]
    /\ currentRecord' = NoRecord
    /\ UNCHANGED <<tre, tret, tres, failGen, rvars, routeTable, defaultroute,
                   breakpoints, lastErr, cmdep, nroutes, ncmds, written, panicked>>

\* main.go:365-377 with the line read from the operator
promptLine(line) ==
    /\ ~panicked
    /\ UNCHANGED <<cvars, inputcg>>
    /\ tpc["engine"] = "prompt"
    /\ ncmds < MaxCmds
    /\ ncmds' = ncmds + 1
    /\ cmd' = getNextCommand(line).cmd
    /\ IF getNextCommand(line) = NilCmd
          THEN report("Wrong syntax!")
          ELSE handleCMD(getNextCommand(line))

\* main.go:370-376 with handleCMD given the command c
promptCmd(c) ==
    /\ ~panicked
    /\ UNCHANGED <<cvars, inputcg>>
    /\ tpc["engine"] = "prompt"
    /\ ncmds < MaxCmds
    /\ ncmds' = ncmds + 1
    /\ cmd' = c.cmd
    /\ handleCMD(c)

(***************************************************************************)
(* The task that reads the backend (main.go:204-218)                       *)
(***************************************************************************)

\* main.go:206-208, 128: re := routeTable[*defaultroute], then the call of
\* re.Read for the header in readTLSRecord(re)
readerPick ==
    /\ ~panicked
    /\ UNCHANGED <<cvars, inputcg>>
    /\ tpc["reader"] = "pick"
    /\ defaultroute # NilEP
    /\ tpc' = [tpc EXCEPT !["reader"] = "io"]
    /\ tre' = [tre EXCEPT !["reader"] = routeTable[defaultroute]]
    /\ tret' = [tret EXCEPT !["reader"] = "header"]
    /\ tres' = [tres EXCEPT !["reader"] = "none"]
    /\ failGen' = [failGen EXCEPT !["reader"] = 0]
    /\ UNCHANGED <<rvars, evars, written, panicked>>

\* main.go:207 running while the control loop is inside the map write of
\* main.go:269 or the delete of main.go:284: the accesses are not ordered, and
\* the runtime may end the process ("concurrent map read and map write");
\* when it does not, the read sees the map before or after the write
readerMapRace ==
    /\ ~panicked
    /\ UNCHANGED <<cvars, inputcg>>
    /\ tpc["reader"] = "pick"
    /\ defaultroute # NilEP
    /\ tpc["engine"] \in {"add_insert", "rm_delete"}
    /\ panicked' = TRUE
    /\ UNCHANGED <<tvars, rvars, evars, written>>

\* main.go:133-135, 209-212: the header read has no record type; the task
\* ends
readerBadRecord ==
    /\ ~panicked
    /\ UNCHANGED <<cvars, inputcg>>
    /\ tpc["reader"] = "header"
    /\ tpc' = [tpc EXCEPT !["reader"] = "done"]
    /\ UNCHANGED <<tre, tret, tres, failGen, rvars, evars, written, panicked>>

\* main.go:143-151: the payload loop of readTLSRecord calls re.Read on the
\* same re, after the header when the record has a payload and after a
\* payload read that has not filled the buffer
readerPayload ==
    /\ ~panicked
    /\ UNCHANGED <<cvars, inputcg>>
    /\ tpc["reader"] \in {"header", "payload"}
    /\ tpc' = [tpc EXCEPT !["reader"] = "io"]
    /\ tret' = [tret EXCEPT !["reader"] = "payload"]
    /\ tres' = [tres EXCEPT !["reader"] = "none"]
    /\ failGen' = [failGen EXCEPT !["reader"] = 0]
    /\ UNCHANGED <<tre, rvars, evars, written, panicked>>

\* main.go:143, 159-165, 208-213: the buffer is full, readTLSRecord returns
\* the record and the task comes to its send on inputcg
readerRecord ==
    /\ ~panicked
    /\ UNCHANGED <<cvars, inputcg>>
    /\ tpc["reader"] \in {"header", "payload"}
    /\ tpc' = [tpc EXCEPT !["reader"] = "send"]
    /\ UNCHANGED <<tre, tret, tres, failGen, rvars, evars, written, panicked>>

\* main.go:214: inputcg <- record.toBytes(), which waits while the channel
\* holds 1024 values; the task then starts over at main.go:206
readerSend ==
    /\ ~panicked
    /\ UNCHANGED cvars
    /\ tpc["reader"] = "send"
    /\ inputcg < InputCap
    /\ inputcg' = inputcg + 1
    /\ tpc' = [tpc EXCEPT !["reader"] = "pick"]
    /\ UNCHANGED <<tre, tret, tres, failGen, rvars, evars, written, panicked>>

\* main.go:185-191: the writer goroutine of an accepted inbound connection
\* takes a value from inputcg
writerRecv ==
    /\ ~panicked
    /\ UNCHANGED cvars
    /\ inputcg > 0
    /\ inputcg' = inputcg - 1
    /\ UNCHANGED <<tvars, rvars, evars, written, panicked>>

(***************************************************************************)
(* The program                                                             *)
(***************************************************************************)

\* main.go:338-339 and the zero values of the globals
mainInit ==
    /\ tpc = [t \in Threads |-> IF t = "engine" THEN "select" ELSE "pick"]
    /\ tre = [t \in Threads |-> NilRoute]
    /\ tret = [t \in Threads |-> IF t = "engine" THEN "select" ELSE "pick"]
    /\ tres = [t \in Threads |-> "none"]
    /\ failGen = [t \in Threads |-> 0]
    /\ rpc = [r \in RouteIds |-> "none"]
    /\ conn = [r \in RouteIds |-> "nil"]
    /\ gen = [r \in RouteIds |-> 0]
    /\ retries = [r \in RouteIds |-> 0]
    /\ closechan = [r \in RouteIds |-> 0]
    /\ toclose = [r \in RouteIds |-> FALSE]
    /\ ncloses = [r \in RouteIds |-> 0]
    /\ routeTable = [e \in EndPoints |-> NilRoute]
    /\ defaultroute = NilEP
    /\ breakpoints = {Application}
    /\ currentRecord = NoRecord
    /\ cmd = "nil"
    /\ lastErr = ""
    /\ cmdep = NilEP
    /\ nroutes = 0
    /\ ncmds = 0
    /\ nevents = 0
    /\ written = <<>>
    /\ panicked = FALSE
    /\ inputcg = 0

\* the program at its start
Init == mainInit /\ codecIdle

\* dials made so far, over all routes: the failed ones and the others
RECURSIVE sumDials(_)
sumDials(r) == IF r = 0 THEN 0 ELSE retries[r] + gen[r] + sumDials(r - 1)
dials == sumDials(MaxRoutes)

\* the steps of the goroutines other than the reading of a command
Background ==
    \/ \E r \in RouteIds : dials < MaxDials /\ runDialFail(r)
    \/ \E r \in RouteIds : dials < MaxDials /\ runDialOk(r)
    \/ \E r \in RouteIds : \E t \in Threads : readyHandoff(r, t)
    \/ \E r \in RouteIds : \E t \in Threads : restartHandoff(r, t)
    \/ \E r \in RouteIds : runSelect(r)
    \/ \E t \in Threads : ioCall(t)
    \/ \E t \in Threads : ioOk(t)
    \/ \E t \in Threads : ioErr(t)
    \/ \E t \in Threads : ioPanic(t)
    \/ addSetDefault
    \/ addInsert
    \/ \E ty \in RecTypes : recvRecord(ty)
    \/ recvSignal
    \/ readerPick
    \/ readerMapRace
    \/ readerBadRecord
    \/ readerPayload
    \/ readerRecord
    \/ inputcg < MaxQueued /\ readerSend
    \/ writerRecv

\* the program driven by operator lines
Next ==
    \/ Background
    \/ \E line \in Lines : promptLine(line)

Spec == Init /\ [][Next]_vars

\* the program with handleCMD driven by command values
CmdNext ==
    \/ Background
    \/ \E c \in Commands : promptCmd(c)
    \/ closeSend("engine")
    \/ removeDelete

CmdSpec == Init /\ [][CmdNext]_vars

(***************************************************************************)
(* Claims about the control loop and its commands                          *)
(***************************************************************************)

\* this step reads a line (or command) that getNextCommand turns into c
handled(c) == ncmds' = ncmds + 1 /\ cmd' = c

\* C6: `f` with no current record fails with "No record", writes nothing
\* and leaves the pause active, whatever the route table and default are.
C6_ForwardWithoutRecord ==
    [][(handled("forwardRecord") /\ currentRecord = NoRecord)
          => (/\ lastErr' = "No record"
              /\ tpc'["engine"] = "prompt"
              /\ written' = written
              /\ ~panicked')]_vars

\* C7: once `q` has been handled the control loop reads no further command
\* and takes no further record or signal event.
C7_QuitTerminates ==
    [][cmd = "quitProgram" => (ncmds' = ncmds /\ nevents' = nevents)]_vars

\* C8 as claimed: handling `c` writes nothing to any route, whether or not a
\* record is pending.
C8_ContinueNeverForwards ==
    [][cmd = "continueType" => written' = written]_vars

\* C8 amended: `c` resumes without writing only when no record is pending;
\* with a record pending it is handled exactly as `f`, and the write that
\* follows sends that record once to the default route before the loop
\* resumes.
C8_ContinueForwardsPending ==
    [][/\ (handled("continueType") /\ currentRecord = NoRecord)
            => (tpc'["engine"] = "select" /\ written' = written)
       /\ (handled("continueType") /\ currentRecord # NoRecord)
            => forwardCmd(Command("forwardRecord", <<>>))
       /\ (cmd = "continueType" /\ written' # written)
            => (/\ written' = Append(written, <<tre["engine"], currentRecord>>)
                /\ currentRecord # NoRecord
                /\ tpc'["engine"] = "select")]_vars

\* C8 witness: `c` was given with a record pending and the record has been
\* written to the default route
C8_Witness ==
    /\ cmd = "continueType"
    /\ tpc["engine"] = "select"
    /\ defaultroute # NilEP
    /\ written = <<<<routeTable[defaultroute], Application>>>>

\* C9: the line `r <ip> <port>` starts the Close of the route when the
\* endpoint is a key of the table, and fails with "No such route." leaving
\* the table unchanged and the pause active when it is not.
C9_RemoveLine ==
    [][\A a \in EpArgs :
          (Len(a) = 2 /\ promptLine(Line(<<"r">>, a)))
             => LET p == parseEP(a[1], a[2]) IN
                p.err = "" =>
                   IF routeTable[p.ep] # NilRoute
                      THEN /\ tpc'["engine"] = "close_cc"
                           /\ tre'["engine"] = routeTable[p.ep]
                      ELSE /\ lastErr' = "No such route."
                           /\ routeTable' = routeTable
                           /\ tpc'["engine"] = "prompt"]_vars

\* C10: between commands, a non-empty default endpoint is a key of the
\* route table.
C10_DefaultInTable ==
    (tpc["engine"] \in {"prompt", "select"} /\ defaultroute # NilEP)
        => routeTable[defaultroute] # NilRoute

(***************************************************************************)
(* The codec on its own: readTLSRecord applied to a stream of chunks, and  *)
(* toBytes applied to a record                                             *)
(***************************************************************************)

\* payload byte values and record versions given to the codec
PayloadBytes == {65, 66}
Versions == {<<3, 3>>}
Payloads == UNION {[1..n -> PayloadBytes] : n \in 0..MaxPayload}

\* the bytes of a record on the wire, as readTLSRecord expects them
\* (main.go:132-137): type, version, big-endian payload length, payload
wire(ty, ver, data) == <<ty>> \o ver \o PutUint16(Len(data)) \o data

\* every way a connection can deliver bytes in chunks of one byte or more
RECURSIVE Splits(_)
Splits(bytes) ==
    IF bytes = <<>>
       THEN {<<>>}
       ELSE UNION {{<<SubSeq(bytes, 1, k)>> \o rest :
                       rest \in Splits(SubSeq(bytes, k + 1, Len(bytes)))} :
                   k \in 1..Len(bytes)}

\* the bytes a stream delivers
RECURSIVE Concat(_)
Concat(stream) == IF stream = <<>> THEN <<>> ELSE Head(stream) \o Concat(Tail(stream))

\* record types put on the wire: two of the range and one below it
WireTypes == {Handshake, Application, ChangeCipher - 1}
ShortStreams ==
    UNION {Splits(wire(ty, ver, data)) :
              <<ty, ver, data>> \in WireTypes \X Versions \X Payloads}

\* a record whose payload needs two reads of the payload loop, delivered in
\* one chunk, cut after the header, cut at and inside the first read of the
\* payload, and cut inside the header
LongPayload == [i \in 1..(ReadCap + 1) |-> 65]
LongStreams ==
    LET w == wire(Application, <<3, 3>>, LongPayload)
        n == Len(w)
    IN  {<<w>>,
         <<SubSeq(w, 1, HeaderLen), SubSeq(w, HeaderLen + 1, n)>>,
         <<SubSeq(w, 1, HeaderLen), SubSeq(w, HeaderLen + 1, HeaderLen + ReadCap),
           SubSeq(w, HeaderLen + ReadCap + 1, n)>>,
         <<SubSeq(w, 1, HeaderLen), SubSeq(w, HeaderLen + 1, HeaderLen + 100),
           SubSeq(w, HeaderLen + 101, n)>>,
         <<SubSeq(w, 1, 1), SubSeq(w, 2, n)>>}

Streams == ShortStreams \cup LongStreams

\* tlsRecord values given to toBytes, among them values whose Length is not
\* the length of Data
Records ==
    {tlsRecord(ty, ver, len, data) :
        <<ty, ver, len, data>> \in {Handshake, Application} \X Versions \X (0..MaxPayload) \X Payloads}

\* a stream to decode or a record to encode
CodecInit ==
    /\ mainInit
    /\ cerr = ""
    /\ cbytes = <<>>
    /\ \/ cpc = "decode" /\ cstream \in Streams /\ crecord = NilRecord
       \/ cpc = "encode" /\ cstream = <<>> /\ crecord \in Records

\* main.go:208: record, err := readTLSRecord(re)
decode ==
    /\ cpc = "decode"
    /\ LET res == readTLSRecord(cstream)
       IN  crecord' = res.record /\ cerr' = res.err
    /\ cpc' = "decoded"
    /\ UNCHANGED <<cstream, cbytes, tvars, rvars, evars, written, panicked, inputcg>>

\* main.go:213: record.toBytes(), on a record given or on the one decoded
encode ==
    /\ cpc = "encode" \/ (cpc = "decoded" /\ cerr = "")
    /\ cbytes' = toBytes(crecord)
    /\ cpc' = "encoded"
    /\ UNCHANGED <<cstream, crecord, cerr, tvars, rvars, evars, written, panicked, inputcg>>

CodecNext ==
    \/ decode
    \/ encode

CodecSpec == CodecInit /\ [][CodecNext]_vars

(***************************************************************************)
(* Claims about the codec                                                  *)
(***************************************************************************)

\* the bytes are one record on the wire: a header with a type of the range
\* and a length field that counts the bytes after the header
wellFormed(bytes) ==
    /\ Len(bytes) >= HeaderLen
    /\ bytes[1] \in ChangeCipher..Heartbear
    /\ Uint16(SubSeq(bytes, 4, 5)) = Len(bytes) - HeaderLen

\* C11: a well-formed record decodes to the same Record, with no error,
\* however the connection cuts its bytes into chunks, as it does when they
\* come in one chunk.
C11_FragmentationIndependent ==
    (cpc = "decoded" /\ wellFormed(Concat(cstream)))
        => LET whole == readTLSRecord(<<Concat(cstream)>>)
           IN  crecord = whole.record /\ cerr = whole.err

\* C12: the length field of the bytes encode returns is the number of
\* payload bytes it has serialized, whatever Length the record stores.
C12_EncodeRecomputesLength ==
    cpc = "encoded" => Uint16(SubSeq(cbytes, 4, 5)) = Len(crecord.Data)

\* C13: a record whose type is not a breakpoint does not pause the loop; when
\* the default route is a key of the table the record goes to a Write on that
\* route, which appends it once and returns to the loop, and otherwise the
\* record is dropped and the loop takes the next event.
C13_NonBreakpointForwarded ==
    [][/\ \A ty \in RecTypes :
            (recvRecord(ty) /\ ty \notin breakpoints)
               => /\ tpc'["engine"] # "prompt"
                  /\ written' = written
                  /\ IF defaultroute # NilEP /\ routeTable[defaultroute] # NilRoute
                        THEN /\ tpc'["engine"] = "io"
                             /\ tre'["engine"] = routeTable[defaultroute]
                             /\ currentRecord' = ty
                        ELSE /\ tpc'["engine"] = "select"
                             /\ currentRecord' = NoRecord
       /\ (cmd = "nil" /\ written' # written)
            => /\ written' = Append(written, <<routeTable[defaultroute], currentRecord>>)
               /\ currentRecord \in RecTypes \ breakpoints
               /\ tpc'["engine"] = "select"
               /\ currentRecord' = NoRecord]_vars

\* C13 witness: a Handshake record came with a default route in the table,
\* was written to it without a pause, and the loop is at its select again
C13_Witness ==
    /\ cmd = "nil"
    /\ tpc["engine"] = "select"
    /\ Handshake \notin breakpoints
    /\ defaultroute # NilEP
    /\ written = <<<<routeTable[defaultroute], Handshake>>>>

\* C14: a record whose type is a breakpoint pauses the loop with the record
\* pending; `d` then resumes the loop with the record discarded: nothing is
\* written to any route for it, and the route table, the default route and
\* the breakpoint set stay as they were.
C14_DropDiscards ==
    [][/\ \A ty \in RecTypes :
            (recvRecord(ty) /\ ty \in breakpoints)
               => /\ tpc'["engine"] = "prompt"
                  /\ currentRecord' = ty
                  /\ written' = written
       /\ (handled("dropRecord") /\ currentRecord # NoRecord)
            => /\ tpc'["engine"] = "select"
               /\ currentRecord' = NoRecord
               /\ written' = written
               /\ routeTable' = routeTable
               /\ defaultroute' = defaultroute
               /\ breakpoints' = breakpoints
               /\ ~panicked'
       /\ cmd = "dropRecord" => written' = written]_vars

\* C14 witness: a pause was left with `d` while a default route was in the
\* table, and nothing has been written
C14_Witness ==
    /\ cmd = "dropRecord"
    /\ tpc["engine"] = "select"
    /\ defaultroute # NilEP
    /\ routeTable[defaultroute] # NilRoute
    /\ written = <<>>

\* C15: an add that finds the table empty makes the added endpoint the
\* default route; an add that finds one route or more in the table leaves
\* the default route as it was; either way the endpoint becomes a key of the
\* table, and no other step of the add touches the default route or the table.
C15_AddSetsDefaultWhenEmpty ==
    [][/\ (tpc["engine"] = "add_setdef" /\ tpc'["engine"] # "add_setdef")
            => /\ tableLen = 0 => defaultroute' = cmdep
               /\ tableLen >= 1 => defaultroute' = defaultroute
               /\ routeTable' = routeTable
       /\ (tpc["engine"] = "add_insert" /\ tpc'["engine"] # "add_insert")
            => /\ defaultroute' = defaultroute
               /\ routeTable' = [routeTable EXCEPT ![cmdep] = tre["engine"]]
               /\ tre["engine"] # NilRoute
               /\ tpc'["engine"] = "prompt"
       /\ (handled("addRoute") \/ tpc["engine"] = "run_wait")
            => (defaultroute' = defaultroute /\ routeTable' = routeTable)]_vars

\* C15 witness: two routes have been added and the first one is the default
C15_Witness ==
    /\ tpc["engine"] = "prompt"
    /\ tableLen = 2
    /\ defaultroute # NilEP
    /\ routeTable[defaultroute] = 1

\* C16: a `b <type>` line flips the membership of that type (the number
\* taken as a byte) in the breakpoint set and of no other type, flipping it
\* again gives the set back, whatever the set a `b` line finds and whatever
\* the type (every record type and the two ends of the byte range), and the
\* pause goes on with the same pending record.
C16_BreakTwiceRestores ==
    [][handled("breakType")
          => /\ \A a \in BreakArgs :
                  (Len(a) = 1 /\ a[1] \in DOMAIN AtoiTab /\ promptLine(Line(<<"b">>, a)))
                     => LET rt == AtoiTab[a[1]] % 256 IN
                        /\ (rt \in breakpoints') # (rt \in breakpoints)
                        /\ breakpoints' \ {rt} = breakpoints \ {rt}
                        /\ toggleBreakpoint(breakpoints', rt) = breakpoints
                        /\ tpc'["engine"] = "prompt"
                        /\ currentRecord' = currentRecord
             /\ \A bp \in (ChangeCipher..Heartbear) \cup {0, 255} :
                  toggleBreakpoint(toggleBreakpoint(breakpoints, bp), bp) = breakpoints]_vars

\* C16 witness: two `b` lines in one pause have put the breakpoint set back
\* to where the program starts it, which one `b` line cannot do
C16_Witness ==
    /\ cmd = "breakType"
    /\ lastErr = ""
    /\ ncmds = 2
    /\ nevents = 1
    /\ tpc["engine"] = "prompt"
    /\ breakpoints = {Application}

(***************************************************************************)
(* Claims about the tasks that share the route table                       *)
(***************************************************************************)

\* the task that reads the backend is at main.go:206-207, where it reads
\* defaultroute and, once that is non-nil, routeTable
readerReadsDefault == tpc["reader"] = "pick"
readerReadsTable == tpc["reader"] = "pick" /\ defaultroute # NilEP

\* the control loop is about to write defaultroute (main.go:267) or
\* routeTable (main.go:269, 284)
engineWritesDefault == tpc["engine"] = "add_setdef" /\ tableLen = 0
engineWritesTable == tpc["engine"] \in {"add_insert", "rm_delete"}

\* C17: no task other than the control loop is at an access of the default
\* route or of the route table while the control loop is at a write of it.
C17_NoConcurrentAccess ==
    /\ ~(engineWritesDefault /\ readerReadsDefault)
    /\ ~(engineWritesTable /\ readerReadsTable)

\* C19: `f` or `c` given in a pause with a record pending does not end the
\* process: the command reports an error and the pause goes on, or the loop
\* resumes, or the record goes to a Write on a route of the table; this holds
\* too when no default route is set or the default is no key of the table.
C19_ForwardContinueKeepRunning ==
    [][((handled("forwardRecord") \/ handled("continueType")) /\ currentRecord # NoRecord)
          => /\ ~panicked'
             /\ \/ tpc'["engine"] = "prompt" /\ lastErr' # ""
                \/ tpc'["engine"] = "select"
                \/ tpc'["engine"] = "io" /\ tre'["engine"] # NilRoute]_vars

(***************************************************************************)
(* Claims about the dial loop of a route                                   *)
(***************************************************************************)

\* C18: when every dial fails, run dials once and retries max_retry times,
\* then ends without a further dial; it has sent no ready signal and given
\* its creator no error, and the creator stays blocked in Run from then on.
C18_DialExhaustionBlocksOpen ==
    [][/\ retries[1] <= max_retry + 1
       /\ gen[1] = 0 => (tpc["engine"] = "run_wait" /\ tres["engine"] = "none")
       /\ (gen[1] = 0 /\ rpc[1] = "done")
            => (retries[1] = max_retry + 1 /\ conn[1] = "nil")
       /\ rpc[1] = "done"
            => (rpc'[1] = "done" /\ retries' = retries /\ gen' = gen /\ conn' = conn)
       /\ (rpc[1] = "done" /\ tpc["engine"] = "run_wait")
            => (tpc'["engine"] = "run_wait" /\ tres'["engine"] = "none")]_vars

\* C18 witness: six dials have failed, none has succeeded, run has ended and
\* the creator is still in Run
C18_Witness ==
    /\ gen[1] = 0
    /\ retries[1] = max_retry + 1
    /\ rpc[1] = "done"
    /\ tpc["engine"] = "run_wait"

\* C20: retries counts the failed dials of the whole life of the route: only
\* a failed dial changes it, by one, and a successful dial leaves it alone;
\* it never exceeds max_retry + 1, and once it is max_retry + 1 run has ended
\* and dials no more.
C20_FailuresNeverReset ==
    [][/\ retries[1] <= max_retry + 1
       /\ retries[1] = max_retry + 1 => rpc[1] = "done"
       /\ retries'[1] >= retries[1]
       /\ gen'[1] # gen[1] => (retries'[1] = retries[1] /\ retries[1] <= max_retry)
       /\ retries'[1] # retries[1]
            => (retries'[1] = retries[1] + 1 /\ rpc[1] = "dial" /\ conn'[1] = "nil"
                /\ gen'[1] = gen[1])
       /\ retries[1] = max_retry + 1 => (gen'[1] = gen[1] /\ rpc'[1] = "done")]_vars

\* C20 witness: the sixth failure came after the route had been connected
\* twice, and run has ended
C20_Witness ==
    /\ gen[1] = MaxRouteDials
    /\ retries[1] = max_retry + 1
    /\ conn[1] = "nil"
    /\ rpc[1] = "done"

=============================================================================
